---- MODULE Spec2Model ----
(***************************************************************************)
(* Data-access layer of the messenger backend: the four Cassandra tables   *)
(* (counter, conversation, messages, user_conversations), the send path    *)
(* (MessageController.send_message -> create_or_get_conversation ->        *)
(* create_message), one storage statement per step, and the read paths     *)
(* with their client-side pagination.                                      *)
(***************************************************************************)
EXTENDS Integers, Sequences, FiniteSets, TLC

VARIABLES
    counter,             \* table counter: rows [counter_name, counter_value]
    conversation,        \* table conversation, PRIMARY KEY (conversation_id, sender_id)
    messages,            \* table messages, PRIMARY KEY (conversation_id, timestamp, message_id)
    user_conversations,  \* table user_conversations, PRIMARY KEY (conversation_id)
    now,                 \* the wall clock, as last observed by datetime.now()
    proc,                \* per request slot: position in the handler and its local variables
    log,                 \* completed requests, in order of completion
    allocs,              \* per counter name: the IDs handed out, in order of the increments
    nfail,               \* number of storage statements that have failed so far
    resp                 \* response of the read request that has just run

vars == <<counter, conversation, messages, user_conversations, now, proc, log, allocs, nfail, resp>>

tables == <<counter, conversation, messages, user_conversations>>

---------------------------------------------------------------------------
(* Bounds of the model *)

MaxOps == 2      \* write requests (sends, resolves) started in one behaviour
MaxSends == 3    \* sends started in one behaviour of the read specification
MaxTime == 3     \* wall-clock values 1..MaxTime
MaxFail == 1     \* storage failures in one behaviour
MaxPage == 2     \* page numbers 1..MaxPage asked for by a read request
MaxLimit == 2    \* page sizes 1..MaxLimit
MaxTieOps == 3   \* sends started in one behaviour of the two-user specification

Users == {1, 2, 3}
Contents == {"hi", "yo"}
Procs == {1, 2}       \* request slots: requests in progress at one time
SeqProcs == {1}
TieUsers == {1, 2}    \* the two users of the two-user specification

None == "None"
Times == 1..MaxTime
Pages == 1..MaxPage
Limits == 1..MaxLimit

Min(a, b) == IF a <= b THEN a ELSE b
Max(a, b) == IF a >= b THEN a ELSE b

---------------------------------------------------------------------------
(* The storage tier: SELECT / INSERT / UPDATE on the four tables *)

\* SELECT counter_value FROM counter WHERE counter_name = name
SelectCounter(name) == {r \in counter : r.counter_name = name}

\* Mutant of NextId: the next ID skips one value
NextIdSkipping(rows) ==
    IF rows # {} THEN (CHOOSE r \in rows : TRUE).counter_value + 2 ELSE 1

\* Mutant of NextId: the "+ 1" is left out
NextIdNoIncrement(rows) ==
    IF rows # {} THEN (CHOOSE r \in rows : TRUE).counter_value ELSE 1

\* value[0]["counter_value"] + 1 if value else 1
NextId(rows) ==
    IF rows # {} THEN (CHOOSE r \in rows : TRUE).counter_value + 1 ELSE 1

\* UPDATE counter SET counter_value = counter_value + 1 WHERE counter_name = name
\* (a Cassandra counter column: the row comes into being with the first increment)
IncrementCounter(name) ==
    LET rows == SelectCounter(name)
        old == IF rows = {} THEN 0 ELSE (CHOOSE r \in rows : TRUE).counter_value
    IN  {r \in counter : r.counter_name # name}
            \cup {[counter_name |-> name, counter_value |-> old + 1]}

\* SELECT conversation_id FROM conversation WHERE sender_id = s AND receiver_id = r
\* ALLOW FILTERING: the ids of the matching rows
SelectConversationIds(s, r) ==
    {c.conversation_id : c \in {x \in conversation : x.sender_id = s /\ x.receiver_id = r}}

\* Mutant of ConversationAfterInsert: a record is written for each order of
\* the pair
ConversationAfterInsertBothOrders(id, s, r, ts) ==
    {c \in conversation : ~(c.conversation_id = id /\ c.sender_id \in {s, r})}
        \cup {[conversation_id |-> id, sender_id |-> s, receiver_id |-> r,
               last_timestamp |-> ts],
              [conversation_id |-> id, sender_id |-> r, receiver_id |-> s,
               last_timestamp |-> ts]}

\* INSERT INTO conversation: an upsert on the primary key (conversation_id, sender_id)
ConversationAfterInsert(id, s, r, ts) ==
    {c \in conversation : ~(c.conversation_id = id /\ c.sender_id = s)}
        \cup {[conversation_id |-> id, sender_id |-> s, receiver_id |-> r,
               last_timestamp |-> ts]}

\* Mutant of MessagesAfterInsert: the table is keyed by message_id alone
MessagesAfterInsertKeyedById(mid, cid, s, r, content, ts) ==
    {m \in messages : m.message_id # mid}
        \cup {[message_id |-> mid, conversation_id |-> cid, sender_id |-> s,
               receiver_id |-> r, content |-> content, timestamp |-> ts]}

\* INSERT INTO messages: an upsert on the primary key
\* (conversation_id, timestamp, message_id)
MessagesAfterInsert(mid, cid, s, r, content, ts) ==
    {m \in messages : ~(m.conversation_id = cid /\ m.timestamp = ts /\ m.message_id = mid)}
        \cup {[message_id |-> mid, conversation_id |-> cid, sender_id |-> s,
               receiver_id |-> r, content |-> content, timestamp |-> ts]}

\* SELECT ... FROM user_conversations WHERE conversation_id = cid
SelectSummary(cid) == {u \in user_conversations : u.conversation_id = cid}

\* Mutant of SummaryAfterUpsert: an existing row is left as it is
SummaryAfterInsertIfAbsent(cid, s, r, ts, content) ==
    IF SelectSummary(cid) # {} THEN user_conversations
    ELSE user_conversations
            \cup {[conversation_id |-> cid, sender_id |-> s, receiver_id |-> r,
                   last_timestamp |-> ts, last_message |-> content]}

\* INSERT INTO user_conversations / UPDATE user_conversations SET ... WHERE
\* conversation_id = cid: both write the four columns of the row keyed by cid
SummaryAfterUpsert(cid, s, r, ts, content) ==
    {u \in user_conversations : u.conversation_id # cid}
        \cup {[conversation_id |-> cid, sender_id |-> s, receiver_id |-> r,
               last_timestamp |-> ts, last_message |-> content]}

\* ConversationModel.get_conversation: None (<< >>) or the summary as a dict (<<d>>)
GetConversation(cid) ==
    LET values == SelectSummary(cid)
    IN  IF values = {} THEN << >>
        ELSE LET value == CHOOSE v \in values : TRUE
             IN  <<[conversation_id |-> value.conversation_id,
                    sender_id |-> value.sender_id,
                    receiver_id |-> value.receiver_id,
                    last_message_at |-> value.last_timestamp,
                    last_message_content |-> value.last_message]>>

---------------------------------------------------------------------------
(* Request slots: the local variables of one send_message or               *)
(* create_or_get_conversation call                                         *)

IdleProc ==
    [pc |-> "idle", op |-> "none", user1_id |-> 0, user2_id |-> 0, content |-> None,
     values1 |-> << >>, values2 |-> << >>, conversation_id |-> 0, message_id |-> 0,
     created_at |-> 0, values |-> {}, created |-> FALSE, conversation |-> << >>]

NoResp == [op |-> "none"]

\* Positions at which the next thing the handler does is a storage statement
StoragePcs ==
    {"query_1", "query_2", "get_conversation", "read_conv_counter",
     "update_conv_counter", "insert_conversation", "read_msg_counter",
     "update_msg_counter", "insert_message", "check_conversation", "upsert_summary"}

Started == Len(log) + Cardinality({p \in Procs : proc[p].pc # "idle"})

\* The entry a finished request leaves in the log; `conversation` is what a
\* create_or_get_conversation call made on its own returned (<<dict>>, or << >>
\* for None and for a send). outcome: "ok" (a result was
\* returned), "none" (create_or_get_conversation returned None), "type_error"
\* (send_message subscripted None), "storage_error" (execute raised).
LogEntry(l, outcome) ==
    [op |-> l.op, user1_id |-> l.user1_id, user2_id |-> l.user2_id,
     content |-> l.content, outcome |-> outcome,
     conversation_id |-> l.conversation_id, message_id |-> l.message_id,
     timestamp |-> l.created_at, created |-> l.created,
     conversation |-> l.conversation]

Finish(p, l, outcome) ==
    /\ proc' = [proc EXCEPT ![p] = IdleProc]
    /\ log' = Append(log, LogEntry(l, outcome))

\* The first row of a result set, kept as a list of at most one id: the code
\* reads values[0] and the list's truthiness only. The scan order of an
\* ALLOW FILTERING query is the store's, so any matching row may come first.
FirstRows(ids) == IF ids = {} THEN {<< >>} ELSE {<<i>> : i \in ids}

\* datetime.now(): the clock does not run backwards between two observations
ClockReadings == {t \in Times : t = now \/ t = now + 1}

Init ==
    /\ counter = {}
    /\ conversation = {}
    /\ messages = {}
    /\ user_conversations = {}
    /\ now = 1
    /\ proc = [p \in Procs |-> IdleProc]
    /\ log = << >>
    /\ allocs = [n \in {"conversation_id", "message_id"} |-> << >>]
    /\ nfail = 0
    /\ resp = NoResp

\* MessageController.send_message is called with (sender_id, receiver_id, content)
StartSend(p, s, r, c) ==
    /\ proc[p].pc = "idle"
    /\ proc' = [proc EXCEPT ![p] = [IdleProc EXCEPT !.pc = "query_1", !.op = "send",
                                        !.user1_id = s, !.user2_id = r, !.content = c]]
    /\ resp' = NoResp
    /\ UNCHANGED <<tables, now, log, allocs, nfail>>

\* ConversationModel.create_or_get_conversation is called on its own
StartResolve(p, a, b) ==
    /\ proc[p].pc = "idle"
    /\ proc' = [proc EXCEPT ![p] = [IdleProc EXCEPT !.pc = "query_1", !.op = "resolve",
                                        !.user1_id = a, !.user2_id = b]]
    /\ resp' = NoResp
    /\ UNCHANGED <<tables, now, log, allocs, nfail>>

\* values1 = execute(query_1, (user1_id, user2_id))
Query1(p) ==
    /\ proc[p].pc = "query_1"
    /\ \E v \in FirstRows(SelectConversationIds(proc[p].user1_id, proc[p].user2_id)) :
          proc' = [proc EXCEPT ![p].values1 = v, ![p].pc = "query_2"]
    /\ resp' = NoResp
    /\ UNCHANGED <<tables, now, log, allocs, nfail>>

\* Mutant of Query2: the lookup of the pair in the other order is left out
Query2Skipped(p) ==
    /\ proc[p].pc = "query_2"
    /\ proc' = [proc EXCEPT ![p].values2 = << >>,
                            ![p].pc = IF proc[p].values1 # << >>
                                      THEN "get_conversation" ELSE "read_conv_counter"]
    /\ resp' = NoResp
    /\ UNCHANGED <<tables, now, log, allocs, nfail>>

\* values2 = execute(query_2, (user2_id, user1_id)); then the two if-tests
Query2(p) ==
    /\ proc[p].pc = "query_2"
    /\ \E v \in FirstRows(SelectConversationIds(proc[p].user2_id, proc[p].user1_id)) :
          proc' = [proc EXCEPT ![p].values2 = v,
                     ![p].pc = IF proc[p].values1 # << >> \/ v # << >>
                               THEN "get_conversation" ELSE "read_conv_counter"]
    /\ resp' = NoResp
    /\ UNCHANGED <<tables, now, log, allocs, nfail>>

\* What the caller of create_or_get_conversation does with its result
\* `conversation` (None is << >>): a resolve request returns it; send_message
\* reads conversation['conversation_id'], a TypeError on None that its
\* except clause turns into the HTTP 500 outcome.
ReturnConversation(p, l, conv) ==
    IF l.op = "resolve"
    THEN IF conv = << >>
         THEN Finish(p, l, "none")
         ELSE Finish(p, [l EXCEPT !.conversation_id = conv[1].conversation_id,
                                   !.conversation = conv], "ok")
    ELSE IF conv = << >>
         THEN Finish(p, l, "type_error")
         ELSE /\ proc' = [proc EXCEPT ![p] =
                            [l EXCEPT !.conversation_id = conv[1].conversation_id,
                                      !.pc = "read_msg_counter"]]
              /\ UNCHANGED log

\* return await ConversationModel.get_conversation(values1[0] | values2[0])
GetExisting(p) ==
    /\ proc[p].pc = "get_conversation"
    /\ LET id == IF proc[p].values1 # << >> THEN proc[p].values1[1]
                                             ELSE proc[p].values2[1]
       IN  ReturnConversation(p, proc[p], GetConversation(id))
    /\ resp' = NoResp
    /\ UNCHANGED <<tables, now, allocs, nfail>>

\* conversation_id = value[0]["counter_value"] + 1 if value else 1
ReadConvCounter(p) ==
    /\ proc[p].pc = "read_conv_counter"
    /\ proc' = [proc EXCEPT ![p].conversation_id = NextId(SelectCounter("conversation_id")),
                            ![p].pc = "update_conv_counter"]
    /\ resp' = NoResp
    /\ UNCHANGED <<tables, now, log, allocs, nfail>>

\* UPDATE counter ...; created_at = datetime.now()
UpdateConvCounter(p) ==
    /\ proc[p].pc = "update_conv_counter"
    /\ counter' = IncrementCounter("conversation_id")
    /\ allocs' = [allocs EXCEPT !["conversation_id"] = Append(@, proc[p].conversation_id)]
    /\ \E t \in ClockReadings :
          /\ now' = t
          /\ proc' = [proc EXCEPT ![p].created_at = t, ![p].pc = "insert_conversation"]
    /\ resp' = NoResp
    /\ UNCHANGED <<conversation, messages, user_conversations, log, nfail>>

\* INSERT INTO conversation ...; return the new conversation's dict
InsertConversation(p) ==
    /\ proc[p].pc = "insert_conversation"
    /\ conversation' = ConversationAfterInsert(proc[p].conversation_id, proc[p].user1_id,
                                               proc[p].user2_id, proc[p].created_at)
    /\ ReturnConversation(p, [proc[p] EXCEPT !.created = TRUE],
            <<[conversation_id |-> proc[p].conversation_id,
               sender_id |-> proc[p].user1_id, receiver_id |-> proc[p].user2_id,
               last_message_at |-> proc[p].created_at,
               last_message_content |-> None]>>)
    /\ resp' = NoResp
    /\ UNCHANGED <<counter, messages, user_conversations, now, allocs, nfail>>

\* message_id = value[0]["counter_value"] + 1 if value else 1
ReadMsgCounter(p) ==
    /\ proc[p].pc = "read_msg_counter"
    /\ proc' = [proc EXCEPT ![p].message_id = NextId(SelectCounter("message_id")),
                            ![p].pc = "update_msg_counter"]
    /\ resp' = NoResp
    /\ UNCHANGED <<tables, now, log, allocs, nfail>>

\* UPDATE counter ...; created_at = datetime.now()
UpdateMsgCounter(p) ==
    /\ proc[p].pc = "update_msg_counter"
    /\ counter' = IncrementCounter("message_id")
    /\ allocs' = [allocs EXCEPT !["message_id"] = Append(@, proc[p].message_id)]
    /\ \E t \in ClockReadings :
          /\ now' = t
          /\ proc' = [proc EXCEPT ![p].created_at = t, ![p].pc = "insert_message"]
    /\ resp' = NoResp
    /\ UNCHANGED <<conversation, messages, user_conversations, log, nfail>>

\* INSERT INTO messages ...
InsertMessage(p) ==
    /\ proc[p].pc = "insert_message"
    /\ messages' = MessagesAfterInsert(proc[p].message_id, proc[p].conversation_id,
                                       proc[p].user1_id, proc[p].user2_id,
                                       proc[p].content, proc[p].created_at)
    /\ proc' = [proc EXCEPT ![p].pc = "check_conversation"]
    /\ resp' = NoResp
    /\ UNCHANGED <<counter, conversation, user_conversations, now, log, allocs, nfail>>

\* values = execute(check_conversation_queries, (conversation_id,))
CheckConversation(p) ==
    /\ proc[p].pc = "check_conversation"
    /\ proc' = [proc EXCEPT ![p].values = SelectSummary(proc[p].conversation_id),
                            ![p].pc = "upsert_summary"]
    /\ resp' = NoResp
    /\ UNCHANGED <<tables, now, log, allocs, nfail>>

\* if not values: INSERT INTO user_conversations ... else: UPDATE ...;
\* create_message returns and send_message builds its MessageResponse
UpsertSummary(p) ==
    /\ proc[p].pc = "upsert_summary"
    /\ user_conversations' = SummaryAfterUpsert(proc[p].conversation_id, proc[p].user1_id,
                                                proc[p].user2_id, proc[p].created_at,
                                                proc[p].content)
    /\ Finish(p, proc[p], "ok")
    /\ resp' = NoResp
    /\ UNCHANGED <<counter, conversation, messages, now, allocs, nfail>>

\* Mutant of Fail: the except clause returns a response instead of raising
FailReportedOk(p) ==
    /\ proc[p].pc \in StoragePcs
    /\ nfail < MaxFail
    /\ nfail' = nfail + 1
    /\ Finish(p, proc[p], "ok")
    /\ resp' = NoResp
    /\ UNCHANGED <<tables, now, allocs>>

\* cassandra_client.execute raises: the statement has no effect and the request
\* ends (send_message: except Exception -> HTTP 500)
Fail(p) ==
    /\ proc[p].pc \in StoragePcs
    /\ nfail < MaxFail
    /\ nfail' = nfail + 1
    /\ Finish(p, proc[p], "storage_error")
    /\ resp' = NoResp
    /\ UNCHANGED <<tables, now, allocs>>

---------------------------------------------------------------------------
(* The read paths *)

\* Mutant of ClusteringOrder: the partition is clustered by timestamp ASC
RECURSIVE ClusteringOrderOldestFirst(_)
ClusteringOrderOldestFirst(rows) ==
    IF rows = {} THEN << >>
    ELSE LET first == CHOOSE r \in rows : \A o \in rows :
                          \/ r.timestamp < o.timestamp
                          \/ r.timestamp = o.timestamp /\ r.message_id <= o.message_id
         IN  <<first>> \o ClusteringOrderOldestFirst(rows \ {first})

\* The rows of a messages partition in clustering order
\* (timestamp DESC, message_id ASC): what ORDER BY timestamp DESC returns
RECURSIVE ClusteringOrder(_)
ClusteringOrder(rows) ==
    IF rows = {} THEN << >>
    ELSE LET first == CHOOSE r \in rows : \A o \in rows :
                          \/ r.timestamp > o.timestamp
                          \/ r.timestamp = o.timestamp /\ r.message_id <= o.message_id
         IN  <<first>> \o ClusteringOrder(rows \ {first})

\* Python's items[lo:hi] for 0 <= lo <= hi
PySlice(items, lo, hi) == SubSeq(items, Min(lo, Len(items)) + 1, Min(hi, Len(items)))

\* The dict built per row in the two message listings
MessageDict(value, conversation_id) ==
    [id |-> value.message_id, sender_id |-> value.sender_id,
     receiver_id |-> value.receiver_id, content |-> value.content,
     created_at |-> value.timestamp, conversation_id |-> conversation_id]

MessageDicts(values, conversation_id) ==
    [i \in 1..Len(values) |-> MessageDict(values[i], conversation_id)]

\* Mutant of PageOf: offset = page * limit
PageOfFromPage(items, page, limit) ==
    LET offset == page * limit
    IN  PySlice(items, offset, offset + limit)

\* Mutant of PageOf: items[offset:offset + limit + 1]
PageOfOverlap(items, page, limit) ==
    LET offset == (page - 1) * limit
    IN  PySlice(items, offset, offset + limit + 1)

\* offset = (page - 1) * limit; items[offset:offset + limit]
PageOf(items, page, limit) ==
    LET offset == (page - 1) * limit
    IN  PySlice(items, offset, offset + limit)

\* MessageModel.get_conversation_messages: (messages, total)
GetConversationMessages(conversation_id, page, limit) ==
    LET values == ClusteringOrder({m \in messages : m.conversation_id = conversation_id})
        msgs == MessageDicts(values, conversation_id)
    IN  [data |-> PageOf(msgs, page, limit), total |-> Len(msgs)]

\* Mutant of GetMessagesBeforeTimestamp: timestamp <= before_timestamp
GetMessagesUpToTimestamp(conversation_id, before_timestamp, page, limit) ==
    LET values == ClusteringOrder({m \in messages :
                        /\ m.conversation_id = conversation_id
                        /\ m.timestamp <= before_timestamp})
        msgs == MessageDicts(values, conversation_id)
    IN  [data |-> PageOf(msgs, page, limit), total |-> Len(msgs)]

\* MessageModel.get_messages_before_timestamp: (messages, total)
GetMessagesBeforeTimestamp(conversation_id, before_timestamp, page, limit) ==
    LET values == ClusteringOrder({m \in messages :
                        /\ m.conversation_id = conversation_id
                        /\ m.timestamp < before_timestamp})
        msgs == MessageDicts(values, conversation_id)
    IN  [data |-> PageOf(msgs, page, limit), total |-> Len(msgs)]

\* The orders in which a full scan may return the rows of a table (the store's
\* token order, which the query does not choose)
ScanOrders(rows) ==
    {s \in [1..Cardinality(rows) -> rows] :
        \A i, j \in 1..Cardinality(rows) : i # j => s[i] # s[j]}

\* The dict built per row in get_user_conversations
ConversationDict(values) ==
    [id |-> values.conversation_id, user1_id |-> values.sender_id,
     user2_id |-> values.receiver_id, last_message_at |-> values.last_timestamp,
     last_message_content |-> values.last_message]

\* values_list after values_list.extend(values_list2); the statement
\* sorted(values_list, key=...) that follows discards its result, so the list
\* stays as extended: the sender_id matches, then the receiver_id matches
ValuesList(user_id, scan) ==
    SelectSeq(scan, LAMBDA x : x.sender_id = user_id)
        \o SelectSeq(scan, LAMBDA x : x.receiver_id = user_id)

\* ConversationModel.get_user_conversations: (conversation, total), with the
\* table scanned in the order `scan`
GetUserConversations(user_id, page, limit, scan) ==
    LET values_list == ValuesList(user_id, scan)
        paginated_values == PageOf(values_list, page, limit)
    IN  [data |-> [i \in 1..Len(paginated_values) |->
                        ConversationDict(paginated_values[i])],
         total |-> Len(values_list)]

\* MessageController.get_conversation_messages
ListConversationMessages(cid, page, limit) ==
    /\ resp' = IF GetConversation(cid) = << >>
               THEN [op |-> "listConversationMessages", status |-> 404,
                     conversation_id |-> cid, page |-> page, limit |-> limit]
               ELSE LET r == GetConversationMessages(cid, page, limit)
                    IN  [op |-> "listConversationMessages", status |-> 200,
                         conversation_id |-> cid, page |-> page, limit |-> limit,
                         total |-> r.total, data |-> r.data]
    /\ UNCHANGED <<tables, now, proc, log, allocs, nfail>>

\* MessageController.get_messages_before_timestamp
ListMessagesBefore(cid, before, page, limit) ==
    /\ resp' = IF GetConversation(cid) = << >>
               THEN [op |-> "listMessagesBefore", status |-> 404,
                     conversation_id |-> cid, before_timestamp |-> before,
                     page |-> page, limit |-> limit]
               ELSE LET r == GetMessagesBeforeTimestamp(cid, before, page, limit)
                    IN  [op |-> "listMessagesBefore", status |-> 200,
                         conversation_id |-> cid, before_timestamp |-> before,
                         page |-> page, limit |-> limit,
                         total |-> r.total, data |-> r.data]
    /\ UNCHANGED <<tables, now, proc, log, allocs, nfail>>

\* ConversationController.get_user_conversations
ListUserConversations(user_id, page, limit) ==
    /\ \E scan \in ScanOrders(user_conversations) :
          LET r == GetUserConversations(user_id, page, limit, scan)
          IN  resp' = [op |-> "listUserConversations", status |-> 200,
                       user_id |-> user_id, page |-> page, limit |-> limit,
                       total |-> r.total, data |-> r.data]
    /\ UNCHANGED <<tables, now, proc, log, allocs, nfail>>

\* Mutant of GetConversationById: the read marks the summary as seen by
\* clearing its last_message
GetConversationByIdMarkingSeen(cid) ==
    /\ resp' = IF GetConversation(cid) = << >>
               THEN [op |-> "getConversation", status |-> 404, conversation_id |-> cid]
               ELSE LET conv == GetConversation(cid)[1]
                    IN  [op |-> "getConversation", status |-> 200,
                         conversation_id |-> cid,
                         data |-> [id |-> conv.conversation_id,
                                   user1_id |-> conv.sender_id,
                                   user2_id |-> conv.receiver_id,
                                   last_message_at |-> conv.last_message_at,
                                   last_message_content |-> conv.last_message_content]]
    /\ user_conversations' =
          {[u EXCEPT !.last_message = IF u.conversation_id = cid THEN None ELSE @] :
              u \in user_conversations}
    /\ UNCHANGED <<counter, conversation, messages, now, proc, log, allocs, nfail>>

\* ConversationController.get_conversation
GetConversationById(cid) ==
    /\ resp' = IF GetConversation(cid) = << >>
               THEN [op |-> "getConversation", status |-> 404, conversation_id |-> cid]
               ELSE LET conv == GetConversation(cid)[1]
                    IN  [op |-> "getConversation", status |-> 200,
                         conversation_id |-> cid,
                         data |-> [id |-> conv.conversation_id,
                                   user1_id |-> conv.sender_id,
                                   user2_id |-> conv.receiver_id,
                                   last_message_at |-> conv.last_message_at,
                                   last_message_content |-> conv.last_message_content]]
    /\ UNCHANGED <<tables, now, proc, log, allocs, nfail>>

\* Conversation ids a read request may name: those handed out, and one more
ConvIds == 1..MaxSends

Quiescent == \A p \in Procs : proc[p].pc = "idle"

\* The statements of a request in progress
Statement(p) ==
    \/ Query1(p)
    \/ Query2(p)
    \/ GetExisting(p)
    \/ ReadConvCounter(p)
    \/ UpdateConvCounter(p)
    \/ InsertConversation(p)
    \/ ReadMsgCounter(p)
    \/ UpdateMsgCounter(p)
    \/ InsertMessage(p)
    \/ CheckConversation(p)
    \/ UpsertSummary(p)

\* The slots are interchangeable: a request takes the first free one
FirstFree(p) == \A q \in Procs : q < p => proc[q].pc # "idle"

\* Requests handled concurrently: sends whose statements interleave, any one
\* of which may fail
Next ==
    \E p \in Procs :
        \/ /\ Started < MaxOps
           /\ FirstFree(p)
           /\ \E s \in Users, r \in Users, c \in Contents : StartSend(p, s, r, c)
        \/ Statement(p)
        \/ Fail(p)

Spec == Init /\ [][Next]_vars

\* One request at a time: sends and bare create_or_get_conversation calls
NextSeq ==
    \E p \in SeqProcs :
        \/ /\ Started < MaxOps
           /\ \E s \in Users, r \in Users, c \in Contents : StartSend(p, s, r, c)
        \/ /\ Started < MaxOps
           /\ \E a \in Users, b \in Users : StartResolve(p, a, b)
        \/ Statement(p)
        \/ Fail(p)

SpecSeq == Init /\ [][NextSeq]_vars

\* Sends one at a time, none failing, and a read request between them (the
\* listings do not look at the content, so one content is sent here)
NextRead ==
    \/ \E p \in SeqProcs :
          \/ /\ Started < MaxSends
             /\ \E s \in Users, r \in Users : StartSend(p, s, r, "hi")
          \/ Statement(p)
    \/ /\ Quiescent
       /\ resp = NoResp
       /\ \/ \E cid \in ConvIds, page \in Pages, limit \in Limits :
                ListConversationMessages(cid, page, limit)
          \/ \E cid \in ConvIds, t \in Times, page \in Pages, limit \in Limits :
                ListMessagesBefore(cid, t, page, limit)
          \/ \E u \in Users, page \in Pages, limit \in Limits :
                ListUserConversations(u, page, limit)

SpecRead == Init /\ [][NextRead]_vars

\* One request at a time, none failing: sends, bare create_or_get_conversation
\* calls and the four read handlers; get_conversation may be called again
\* right after a get_conversation
NextIndex ==
    \/ \E p \in SeqProcs :
          \/ /\ Started < MaxOps
             /\ \E s \in Users, r \in Users : StartSend(p, s, r, "hi")
          \/ /\ Started < MaxOps
             /\ \E a \in Users, b \in Users : StartResolve(p, a, b)
          \/ Statement(p)
    \/ /\ Quiescent
       /\ resp = NoResp
       /\ \/ \E cid \in ConvIds, page \in Pages, limit \in Limits :
                ListConversationMessages(cid, page, limit)
          \/ \E cid \in ConvIds, t \in Times, page \in Pages, limit \in Limits :
                ListMessagesBefore(cid, t, page, limit)
          \/ \E u \in Users, page \in Pages, limit \in Limits :
                ListUserConversations(u, page, limit)
    \/ /\ Quiescent
       /\ resp = NoResp \/ resp.op = "getConversation"
       /\ \E cid \in ConvIds : GetConversationById(cid)

SpecIndex == Init /\ [][NextIndex]_vars

\* Sends between two users, handled concurrently, none failing: enough requests
\* for two interleaved sends to create a record for each order of the pair and
\* a later send to find both
NextTie ==
    \E p \in Procs :
        \/ /\ Started < MaxTieOps
           /\ FirstFree(p)
           /\ \E s \in TieUsers, r \in TieUsers : StartSend(p, s, r, "hi")
        \/ Statement(p)

SpecTie == Init /\ [][NextTie]_vars

\* Two sends between two users, handled concurrently, none failing, each
\* request in progress being resumed when its awaited statement returns
NextFair ==
    \E p \in Procs :
        \/ /\ Started < MaxOps
           /\ FirstFree(p)
           /\ \E s \in TieUsers, r \in TieUsers : StartSend(p, s, r, "hi")
        \/ Statement(p)

SpecFair ==
    /\ Init
    /\ [][NextFair]_vars
    /\ \A p \in Procs : WF_vars(Statement(p))

---------------------------------------------------------------------------
(* Properties *)

\* Log entries i and j name the same two users in opposite order
Reversed(i, j) ==
    /\ log[i].user1_id = log[j].user2_id
    /\ log[i].user2_id = log[j].user1_id

\* Log entries i and j name the same unordered pair of users
SamePair(i, j) ==
    {log[i].user1_id, log[i].user2_id} = {log[j].user1_id, log[j].user2_id}

\* The conversation records of the unordered pair {a, b}
RecordsOf(a, b) ==
    {c \in conversation : {c.sender_id, c.receiver_id} = {a, b}}

\* C1: with one request at a time and no storage failure, resolveOrCreate(A, B)
\* followed by resolveOrCreate(B, A) both return a conversation, with the same
\* conversation_id, and the second call creates no conversation record.
C1_ResolveSymmetric ==
    \A i, j \in 1..Len(log) :
        (/\ i < j
         /\ nfail = 0
         /\ log[i].op = "resolve"
         /\ log[j].op = "resolve"
         /\ Reversed(i, j))
        => /\ log[i].outcome = "ok"
           /\ log[j].outcome = "ok"
           /\ log[j].conversation_id = log[i].conversation_id
           /\ ~log[j].created

\* C2: in every reachable state, also under interleaved sends, the conversation
\* table never holds two different conversation_ids for one unordered pair of
\* users.
C2_OneConversationPerPair ==
    \A c1, c2 \in conversation :
        {c1.sender_id, c1.receiver_id} = {c2.sender_id, c2.receiver_id}
            => c1.conversation_id = c2.conversation_id

\* C3: when allocations do not overlap, the IDs handed out per kind are
\* 1, 2, 3, ...: the first is 1 and each later one is the previous one plus 1.
C3_SequentialIds ==
    \A k \in DOMAIN allocs :
        \A i \in 1..Len(allocs[k]) : allocs[k][i] = i

C3_Witness ==
    /\ Len(allocs["message_id"]) >= 2
    /\ Len(allocs["conversation_id"]) >= 2

\* C4: allocations that interleave hand out one ID twice, and both entities
\* are stored under it: two sends that returned the same message_id have each
\* left a row under that id (unless the two rows have one primary key), and
\* two requests that created a conversation under the same conversation_id
\* for different senders have each left a record under that id. The witness
\* is the reachable state with both duplicates.
C4_DuplicatesAreStored ==
    \A i, j \in 1..Len(log) :
        /\ (/\ i # j
            /\ log[i].op = "send" /\ log[i].outcome = "ok"
            /\ log[j].op = "send" /\ log[j].outcome = "ok"
            /\ log[i].message_id = log[j].message_id
            /\ <<log[i].conversation_id, log[i].timestamp>>
                  # <<log[j].conversation_id, log[j].timestamp>>)
           => \E m1, m2 \in messages :
                 /\ m1 # m2
                 /\ m1.message_id = log[i].message_id
                 /\ m2.message_id = log[i].message_id
                 /\ m1.conversation_id = log[i].conversation_id
                 /\ m1.timestamp = log[i].timestamp
                 /\ m2.conversation_id = log[j].conversation_id
                 /\ m2.timestamp = log[j].timestamp
        /\ (/\ i # j
            /\ log[i].created /\ log[j].created
            /\ log[i].conversation_id = log[j].conversation_id
            /\ log[i].user1_id # log[j].user1_id)
           => \E c1, c2 \in conversation :
                 /\ c1 # c2
                 /\ c1.conversation_id = log[i].conversation_id
                 /\ c2.conversation_id = log[i].conversation_id
                 /\ c1.sender_id = log[i].user1_id
                 /\ c2.sender_id = log[j].user1_id

\* Two messages stored under one message_id, and two conversations of
\* different user pairs stored under one conversation_id
C4_Witness ==
    /\ Len(log) = 2
    /\ log[1].outcome = "ok" /\ log[2].outcome = "ok"
    /\ \E m1, m2 \in messages : m1 # m2 /\ m1.message_id = m2.message_id
    /\ \E c1, c2 \in conversation :
          /\ c1.conversation_id = c2.conversation_id
          /\ {c1.sender_id, c1.receiver_id} # {c2.sender_id, c2.receiver_id}

\* C5: after a send from A to B that stopped with a storage failure, every
\* later send between A and B (either direction) that meets no storage failure
\* completes successfully and returns a message with a conversation_id.
C5_SendAfterFailedSend ==
    \A i, j \in 1..Len(log) :
        (/\ i < j
         /\ log[i].op = "send" /\ log[i].outcome = "storage_error"
         /\ log[j].op = "send" /\ log[j].outcome # "storage_error"
         /\ SamePair(i, j))
        => /\ log[j].outcome = "ok"
           /\ log[j].conversation_id >= 1

\* C6: with one request at a time, after A's first message to B (the send that
\* created their conversation) a later send from B to A that meets no storage
\* failure succeeds with the same conversation_id, the pair has exactly one
\* conversation record, and right after it get_conversation of that id returns
\* the later message's content as last_message_content.
C6_ReplyReusesConversation ==
    \A i, j \in 1..Len(log) :
        (/\ i < j
         /\ log[i].op = "send" /\ log[i].outcome = "ok" /\ log[i].created
         /\ log[j].op = "send" /\ log[j].outcome # "storage_error"
         /\ Reversed(i, j))
        => /\ log[j].outcome = "ok"
           /\ log[j].conversation_id = log[i].conversation_id
           /\ Cardinality(RecordsOf(log[i].user1_id, log[i].user2_id)) = 1
           /\ (j = Len(log) /\ Quiescent)
                => /\ GetConversation(log[j].conversation_id) # << >>
                   /\ GetConversation(log[j].conversation_id)[1].last_message_content
                         = log[j].content

\* A reply from another user with another content has completed
C6_Witness ==
    /\ Len(log) = 2
    /\ Quiescent
    /\ log[1].op = "send" /\ log[1].outcome = "ok" /\ log[1].created
    /\ log[2].op = "send" /\ log[2].outcome = "ok"
    /\ Reversed(1, 2)
    /\ log[1].user1_id # log[1].user2_id
    /\ log[1].content # log[2].content

\* Number of pages of `limit` items that hold `total` items
NumPages(total, limit) == (total + limit - 1) \div limit

\* Pages 1..n of get_user_conversations, concatenated
UserPages(user_id, limit, scan, n) ==
    LET f[p \in 0..n] ==
            IF p = 0 THEN << >>
            ELSE f[p - 1] \o GetUserConversations(user_id, p, limit, scan).data
    IN  f[n]

\* Pages 1..n of get_conversation_messages, concatenated
MessagePages(conversation_id, limit, n) ==
    LET f[p \in 0..n] ==
            IF p = 0 THEN << >>
            ELSE f[p - 1] \o GetConversationMessages(conversation_id, p, limit).data
    IN  f[n]

\* C7: the pages 1, 2, ... of listForUser, concatenated, are ordered by
\* last_timestamp descending.
C7_UserConversationsNewestFirst ==
    \A u \in Users, limit \in Limits :
        \A scan \in ScanOrders(user_conversations) :
            LET total == GetUserConversations(u, 1, limit, scan).total
                all == UserPages(u, limit, scan, NumPages(total, limit))
            IN  \A i, j \in 1..Len(all) :
                    i < j => all[i].last_message_at >= all[j].last_message_at

\* The sequence a listing response was paged from: S for the response `r`
IsPageOf(r, S) ==
    LET offset == (r.page - 1) * r.limit
    IN  /\ r.total = Len(S)
        /\ Len(r.data) = Min(r.limit, Max(0, Len(S) - offset))
        /\ \A i \in 1..Len(r.data) : r.data[i] = S[offset + i]
        /\ (offset >= Len(S) => r.data = << >>)

\* C8: each of the three listings returns total = len(S) and the items
\* S[(page-1)*limit : (page-1)*limit + limit] of the ordered sequence S it
\* fetched: min(limit, max(0, len(S) - (page-1)*limit)) items, none when
\* (page-1)*limit >= len(S).
C8_PageIsSlice ==
    /\ (resp.op = "listConversationMessages" /\ resp.status = 200)
          => IsPageOf(resp, MessageDicts(ClusteringOrder(
                 {m \in messages : m.conversation_id = resp.conversation_id}),
                 resp.conversation_id))
    /\ (resp.op = "listMessagesBefore" /\ resp.status = 200)
          => IsPageOf(resp, MessageDicts(ClusteringOrder(
                 {m \in messages : /\ m.conversation_id = resp.conversation_id
                                    /\ m.timestamp < resp.before_timestamp}),
                 resp.conversation_id))
    /\ resp.op = "listUserConversations"
          => \E scan \in ScanOrders(user_conversations) :
                LET S == ValuesList(resp.user_id, scan)
                IN  IsPageOf(resp, [i \in 1..Len(S) |-> ConversationDict(S[i])])

\* A last, partly filled page has been returned
C8_Witness ==
    /\ resp.op = "listConversationMessages"
    /\ resp.status = 200
    /\ resp.page = 2 /\ resp.limit = 2
    /\ resp.total = 3
    /\ Len(resp.data) = 1

\* C9: for a fixed limit and an unchanged table, pages 1..ceil(total/limit) of
\* listByConversation, concatenated, are the full newest-first sequence of the
\* conversation: every message exactly once, none skipped, none repeated.
C9_PagesCoverConversation ==
    \A cid \in ConvIds, limit \in Limits :
        LET rows == {m \in messages : m.conversation_id = cid}
            full == MessageDicts(ClusteringOrder(rows), cid)
            all == MessagePages(cid, limit, NumPages(Len(full), limit))
        IN  /\ all = full
            /\ \A m \in rows :
                  Cardinality({i \in 1..Len(all) : all[i] = MessageDict(m, cid)}) = 1

\* The second of three one-message pages has been returned
C9_Witness ==
    /\ resp.op = "listConversationMessages"
    /\ resp.status = 200
    /\ resp.page = 2 /\ resp.limit = 1
    /\ resp.total = 3
    /\ Len(resp.data) = 1
    /\ \E m1, m2 \in messages :
          /\ m1.conversation_id = resp.conversation_id
          /\ m2.conversation_id = resp.conversation_id
          /\ m1.timestamp = m2.timestamp /\ m1 # m2

\* C10: listMessagesBefore(conversationId, T, page, limit) returns no message
\* with timestamp >= T, and its total is the number of messages of the
\* conversation with timestamp < T.
C10_BeforeTimestamp ==
    (resp.op = "listMessagesBefore" /\ resp.status = 200)
        => /\ \A i \in 1..Len(resp.data) :
                 resp.data[i].created_at < resp.before_timestamp
           /\ resp.total = Cardinality({m \in messages :
                               /\ m.conversation_id = resp.conversation_id
                               /\ m.timestamp < resp.before_timestamp})

\* A listing that returned an older message and left out one at the bound
C10_Witness ==
    /\ resp.op = "listMessagesBefore"
    /\ resp.status = 200
    /\ Len(resp.data) >= 1
    /\ \E m \in messages :
          /\ m.conversation_id = resp.conversation_id
          /\ m.timestamp = resp.before_timestamp

\* The messages stored under a conversation_id
MessagesOf(cid) == {m \in messages : m.conversation_id = cid}

\* The last request to complete is a successful send whose message is newer
\* than every other message of its conversation
LastSendIsNewest ==
    /\ Len(log) >= 1
    /\ log[Len(log)].op = "send"
    /\ log[Len(log)].outcome = "ok"
    /\ \A m \in MessagesOf(log[Len(log)].conversation_id) :
          m.message_id # log[Len(log)].message_id
              => m.timestamp < log[Len(log)].timestamp

\* The successful sends among the first n completed requests that went to
\* conversation cid
SendsTo(cid, n) ==
    {i \in 1..n : /\ log[i].op = "send" /\ log[i].outcome = "ok"
                  /\ log[i].conversation_id = cid}

C12_NotFoundOnlyWhenNeverCreated ==
    resp.op \in {"listConversationMessages", "listMessagesBefore"}
    => LET created == \E c \in conversation :
                          c.conversation_id = resp.conversation_id
           matching == IF resp.op = "listMessagesBefore"
                       THEN {m \in MessagesOf(resp.conversation_id) :
                                m.timestamp < resp.before_timestamp}
                       ELSE MessagesOf(resp.conversation_id)
       IN  /\ ~created => resp.status = 404
           /\ created => /\ resp.status = 200
                         /\ matching = {} => resp.total = 0 /\ resp.data = << >>

\* C13: listUserConversations returns as total the number of conversations in
\* which the user is sender or receiver, whatever page and limit, and on page
\* 1 it returns min(limit, total) items.
C13_TotalCountsUserConversations ==
    resp.op = "listUserConversations"
    => LET total == Cardinality({u \in user_conversations :
                        u.sender_id = resp.user_id \/ u.receiver_id = resp.user_id})
       IN  /\ resp.total = total
           /\ resp.page = 1 => Len(resp.data) = Min(resp.limit, total)

\* C14: after a send has completed, and until the next send to the same
\* conversation completes, the summary row of the returned conversation_id
\* holds the send's content, timestamp, sender and receiver, whether the row
\* was inserted or overwritten; and no conversation_id has two summary rows.
C14_SummaryHoldsLastSend ==
    /\ \A u, v \in user_conversations :
          u.conversation_id = v.conversation_id => u = v
    /\ \A i \in 1..Len(log) :
          (/\ log[i].op = "send" /\ log[i].outcome = "ok"
           /\ SendsTo(log[i].conversation_id, Len(log)) \subseteq 1..i)
          => SelectSummary(log[i].conversation_id) =
                {[conversation_id |-> log[i].conversation_id,
                  sender_id |-> log[i].user1_id,
                  receiver_id |-> log[i].user2_id,
                  last_timestamp |-> log[i].timestamp,
                  last_message |-> log[i].content]}

\* A reply, sent after the first send had completed, has overwritten the row
C14_Witness ==
    /\ Len(log) = 2
    /\ log[1].op = "send" /\ log[1].outcome = "ok" /\ log[1].created
    /\ log[2].op = "send" /\ log[2].outcome = "ok" /\ ~log[2].created
    /\ log[2].conversation_id = log[1].conversation_id
    /\ log[2].user1_id # log[1].user1_id
    /\ log[2].content # log[1].content
    /\ log[2].timestamp # log[1].timestamp
    /\ log[2].message_id # log[1].message_id

\* C15: a message row, once stored, is never changed or removed: every step
\* of every request, also of interleaved sends, leaves each stored message
\* row in the table as it is.
C15_MessagesImmutable ==
    [][\A m \in messages : m \in messages']_vars

\* The IDs handed out so far from the counter `name`
Allocated(name) == {allocs[name][i] : i \in 1..Len(allocs[name])}

\* C16: a storage failure during a send or a conversation creation ends the
\* request in a failure outcome and the request writes nothing more: a request
\* that reported success has stored all its rows (a send its message and the
\* summary, a creation its conversation record), the failing step changes no
\* table and leaves the request over, and every stored message and
\* conversation row carries an ID that was computed from a counter read (none
\* carries the ID 0 of a request that had not yet read the counter).
C16_FailureStopsRequest ==
    /\ [](/\ \A i \in 1..Len(log) :
               /\ (log[i].op = "send" /\ log[i].outcome = "ok")
                  => /\ \E m \in messages :
                           /\ m.message_id = log[i].message_id
                           /\ m.conversation_id = log[i].conversation_id
                           /\ m.timestamp = log[i].timestamp
                           /\ m.content = log[i].content
                     /\ SelectSummary(log[i].conversation_id) # {}
               /\ (log[i].op = "resolve" /\ log[i].outcome = "ok")
                  => \E c \in conversation :
                        c.conversation_id = log[i].conversation_id
          /\ \A m \in messages :
               /\ m.message_id \in Allocated("message_id")
               /\ m.conversation_id \in Allocated("conversation_id")
          /\ \A c \in conversation :
               c.conversation_id \in Allocated("conversation_id")
          /\ 0 \notin Allocated("message_id") \cup Allocated("conversation_id"))
    /\ [][(/\ Len(log') = Len(log) + 1
           /\ log'[Len(log')].outcome = "storage_error")
          => /\ tables' = tables
             /\ \A p \in Procs : proc'[p].pc = "idle"]_vars

\* A send has failed at INSERT INTO messages, after both counters were read
\* and incremented: its conversation record is stored, its message is not
C16_Witness ==
    /\ Len(log) = 1
    /\ log[1].op = "send"
    /\ log[1].outcome = "storage_error"
    /\ log[1].created
    /\ log[1].message_id = 1
    /\ Allocated("message_id") = {1}
    /\ messages = {}
    /\ conversation # {}

\* The operations of the read handlers
ReadOps ==
    {"getConversation", "listUserConversations", "listConversationMessages",
     "listMessagesBefore"}

\* C17: reads change nothing and getConversation is idempotent: a step of
\* getConversation, listUserConversations, listConversationMessages or
\* listMessagesBefore leaves the counter, conversation, message and summary
\* tables unchanged, and a getConversation(id) called right after a
\* getConversation(id), with no write in between, returns the same result.
C17_ReadsChangeNothing ==
    [][/\ resp'.op \in ReadOps => tables' = tables
       /\ (/\ resp.op = "getConversation"
           /\ resp'.op = "getConversation"
           /\ resp'.conversation_id = resp.conversation_id)
          => resp' = resp]_vars

\* getConversation has returned a conversation with its last message
C17_Witness ==
    /\ resp.op = "getConversation"
    /\ resp.status = 200
    /\ resp.data.last_message_content = "hi"
    /\ messages # {}

\* The value of a counter: 0 while it has no row
CounterValue(name) ==
    IF SelectCounter(name) = {} THEN 0
    ELSE (CHOOSE r \in SelectCounter(name) : TRUE).counter_value

\* C18: in every reachable state, also after a storage failure and under
\* interleaved sends, no step lowers a counter, and every stored message_id
\* (conversation_id) is at least 1 and at most the value of the message
\* (conversation) counter.
C18_IdsWithinCounter ==
    /\ [](/\ \A m \in messages :
               /\ 1 <= m.message_id
               /\ m.message_id <= CounterValue("message_id")
               /\ 1 <= m.conversation_id
               /\ m.conversation_id <= CounterValue("conversation_id")
          /\ \A c \in conversation \cup user_conversations :
               /\ 1 <= c.conversation_id
               /\ c.conversation_id <= CounterValue("conversation_id"))
    /\ [][\A name \in {"message_id", "conversation_id"} :
             CounterValue(name)' >= CounterValue(name)]_vars

\* Two interleaved sends were handed the same IDs: both rows are stored and
\* the counters have gone past the IDs
C18_Witness ==
    /\ Len(allocs["message_id"]) = 2
    /\ allocs["message_id"][1] = allocs["message_id"][2]
    /\ CounterValue("message_id") = 2
    /\ \A m \in messages : m.message_id = 1
    /\ Cardinality(messages) = 2
    /\ nfail = 1

\* C19: in every reachable state, also after a failure between the two steps
\* and under interleaved sends, each summary row's last_message,
\* last_timestamp, sender_id and receiver_id are the content, timestamp,
\* sender and receiver of a message stored under that conversation_id.
C19_SummaryMatchesStoredMessage ==
    \A u \in user_conversations :
        \E m \in MessagesOf(u.conversation_id) :
            /\ m.content = u.last_message
            /\ m.timestamp = u.last_timestamp
            /\ m.sender_id = u.sender_id
            /\ m.receiver_id = u.receiver_id

\* C20: when no send is in progress and none has failed, each summary row
\* shows the newest message of its conversation: last_timestamp is the
\* greatest timestamp among the conversation's messages and last_message is
\* the content of a message with that timestamp, also after interleaved sends.
C20_SummaryShowsNewest ==
    (Quiescent /\ nfail = 0)
    => \A u \in user_conversations :
          /\ \A m \in MessagesOf(u.conversation_id) :
                m.timestamp <= u.last_timestamp
          /\ \E m \in MessagesOf(u.conversation_id) :
                /\ m.timestamp = u.last_timestamp
                /\ m.content = u.last_message

\* The unordered pair of users a message, record or summary row names
PairOf(row) == {row.sender_id, row.receiver_id}

\* C21: in every reachable state, also under interleaved sends, the messages
\* stored under one conversation_id are all between one unordered pair of
\* users, that pair is the pair of every conversation record with that id, and
\* no conversation_id is shared by the records of two different pairs.
C21_OnePairPerConversation ==
    /\ \A m1, m2 \in messages :
          m1.conversation_id = m2.conversation_id => PairOf(m1) = PairOf(m2)
    /\ \A m \in messages, c \in conversation :
          m.conversation_id = c.conversation_id => PairOf(m) = PairOf(c)
    /\ \A c1, c2 \in conversation :
          c1.conversation_id = c2.conversation_id => PairOf(c1) = PairOf(c2)

\* C22: when no send is in progress and no storage failure has occurred, the
\* conversation_ids with a summary row are the conversation_ids with a
\* conversation record and the rows of one id name the same unordered pair of
\* users; in every state, each summary row has a conversation record with its
\* id.
C22_SummaryRecordCorrespondence ==
    /\ \A u \in user_conversations :
          \E c \in conversation : c.conversation_id = u.conversation_id
    /\ (Quiescent /\ nfail = 0)
       => /\ {u.conversation_id : u \in user_conversations}
                = {c.conversation_id : c \in conversation}
          /\ \A u \in user_conversations, c \in conversation :
                u.conversation_id = c.conversation_id => PairOf(u) = PairOf(c)

\* Positions inside create_or_get_conversation
ResolvePcs ==
    {"query_1", "query_2", "get_conversation", "read_conv_counter",
     "update_conv_counter", "insert_conversation"}

\* The step ends its request with a storage failure
StepFails ==
    /\ Len(log') = Len(log) + 1
    /\ log'[Len(log')].outcome = "storage_error"

\* C23: with one request at a time, create_or_get_conversation for a pair with
\* no record increments the conversation counter once, writes exactly one
\* conversation record (id, userA, userB, now) and, called on its own, returns
\* a conversation with last_message_content None; it never changes the summary
\* table or the messages. For a pair with a record it writes nothing and
\* leaves the counters as they are. The summary table is changed only by the
\* summary upsert of a send.
C23_ResolveFrame ==
    [][/\ \A p \in Procs :
            (proc[p].pc \in ResolvePcs /\ proc'[p] # proc[p])
            => LET l == proc[p]
                   id == CounterValue("conversation_id")
               IN  /\ user_conversations' = user_conversations
                   /\ messages' = messages
                   /\ CounterValue("message_id")' = CounterValue("message_id")
                   /\ RecordsOf(l.user1_id, l.user2_id) # {}
                      => /\ tables' = tables
                         /\ proc'[p].pc \notin {"read_conv_counter", "update_conv_counter",
                                                "insert_conversation"}
                   /\ (RecordsOf(l.user1_id, l.user2_id) = {} /\ ~StepFails)
                      => /\ l.pc \in {"query_1", "query_2", "read_conv_counter"}
                            => /\ tables' = tables
                               /\ proc'[p].pc \in {"query_2", "read_conv_counter",
                                                   "update_conv_counter"}
                         /\ l.pc = "update_conv_counter"
                            => /\ CounterValue("conversation_id")' = id + 1
                               /\ conversation' = conversation
                         /\ l.pc = "insert_conversation"
                            => /\ conversation' = conversation \cup
                                     {[conversation_id |-> id,
                                       sender_id |-> l.user1_id,
                                       receiver_id |-> l.user2_id,
                                       last_timestamp |-> now]}
                               /\ Cardinality(conversation')
                                     = Cardinality(conversation) + 1
                               /\ counter' = counter
                               /\ l.op = "resolve"
                                  => /\ log'[Len(log')].outcome = "ok"
                                     /\ log'[Len(log')].conversation =
                                           <<[conversation_id |-> id,
                                              sender_id |-> l.user1_id,
                                              receiver_id |-> l.user2_id,
                                              last_message_at |-> now,
                                              last_message_content |-> None]>>
       /\ user_conversations' # user_conversations
          => \E p \in Procs : proc[p].op = "send" /\ proc[p].pc = "upsert_summary"]_vars

\* A call for a new pair has created its record and returned it, with no last
\* message; a call for the same pair in the other order has written nothing
C23_Witness ==
    /\ Len(log) = 2
    /\ log[1].op = "resolve" /\ log[1].outcome = "ok" /\ log[1].created
    /\ log[1].conversation # << >>
    /\ log[1].conversation[1].last_message_content = None
    /\ log[2].op = "resolve" /\ ~log[2].created
    /\ log[2].outcome # "storage_error"
    /\ nfail = 0
    /\ Reversed(1, 2)
    /\ log[1].user1_id # log[1].user2_id
    /\ Cardinality(conversation) = 1
    /\ CounterValue("conversation_id") = 1
    /\ user_conversations = {} /\ messages = {}

\* C24: for every user, the pages 1, 2, ... of listForUser hold each
\* conversation at most once, and total counts each conversation of the user
\* once, a conversation in which the user is both sender and receiver included.
C24_EachConversationOnce ==
    \A u \in Users, limit \in Limits :
        \A scan \in ScanOrders(user_conversations) :
            LET total == GetUserConversations(u, 1, limit, scan).total
                all == UserPages(u, limit, scan, NumPages(total, limit))
            IN  /\ \A i, j \in 1..Len(all) : all[i].id = all[j].id => i = j
                /\ total = Cardinality({c.conversation_id : c \in
                              {x \in user_conversations : u \in PairOf(x)}})

\* C25: when both lookups of create_or_get_conversation(userA, userB) return
\* rows, with different conversation_ids, the call goes on with the
\* conversation the (userA, userB) lookup found, whose id is the id of a
\* record stored for that order, and creates nothing: a send goes on to store
\* its message under that conversation_id, so that sends from A to B and sends
\* from B to A use different conversation_ids.
C25_FirstLookupWins ==
    [][\A p \in Procs :
          (/\ proc[p].pc = "get_conversation"
           /\ proc'[p] # proc[p]
           /\ proc[p].user1_id # proc[p].user2_id
           /\ proc[p].values1 # << >>
           /\ proc[p].values2 # << >>
           /\ proc[p].values1[1] # proc[p].values2[1]
           /\ ~StepFails)
          => /\ tables' = tables
             /\ proc[p].values1[1]
                   \in SelectConversationIds(proc[p].user1_id, proc[p].user2_id)
             /\ proc[p].values2[1]
                   \in SelectConversationIds(proc[p].user2_id, proc[p].user1_id)
             /\ proc[p].op = "send"
                => /\ proc'[p].pc = "read_msg_counter"
                   /\ proc'[p].conversation_id = proc[p].values1[1]
             /\ proc[p].op = "resolve"
                => /\ log'[Len(log')].outcome = "ok"
                   /\ log'[Len(log')].conversation_id = proc[p].values1[1]]_vars

\* C26: with every request in progress resumed in turn and no storage failure,
\* every started send completes, and once it has completed it has returned a
\* message, that message is stored under the returned conversation_id and a
\* summary row exists for the conversation_id, whatever other send runs
\* concurrently.
C26_SendCompletesAndIsStored ==
    /\ \A p \in Procs : (proc[p].pc # "idle") ~> (proc[p].pc = "idle")
    /\ [](\A i \in 1..Len(log) :
             log[i].op = "send"
             => /\ log[i].outcome = "ok"
                /\ [message_id |-> log[i].message_id,
                    conversation_id |-> log[i].conversation_id,
                    sender_id |-> log[i].user1_id,
                    receiver_id |-> log[i].user2_id,
                    content |-> log[i].content,
                    timestamp |-> log[i].timestamp] \in messages
                /\ SelectSummary(log[i].conversation_id) # {})

====
